---- MODULE Spec2Model ----
(***************************************************************************)
(* Model of the Mattermost dice roller plugin (server/plugin.go).          *)
(*                                                                         *)
(* A Go string is a sequence of one-character strings, so TrimSpace,       *)
(* Fields, HasPrefix, Replace and the Sprintf formats are computed on      *)
(* characters.  rollDice (dice.go) follows the dice notation of the        *)
(* specification, section 4.1: a request is a modifier, dice with or       *)
(* without an attached modifier, or a plain number; zero dice and dice of  *)
(* zero sides are rejected.  math/rand is a deterministic stream fixed by  *)
(* its seed: the generator state is the seed and the number of draws taken *)
(* so far.  One behaviour is the activation of the plugin followed by one  *)
(* command, with any seed, any command of Commands and any answers of the  *)
(* plugin API.                                                             *)
(***************************************************************************)
EXTENDS Integers, Sequences, FiniteSets, TLC

VARIABLES pc, rng, args, response, posts, dice

vars == <<pc, rng, args, response, posts, dice>>

\* ---- bounds ----
MaxTokens == 3
MaxSeed == 1

\* ---- string literals ----
trigger == <<"r", "o", "l", "l">>
closeCommand == <<"c", "l", "o", "s", "e">>
closeModifier == <<"A", "n", "d", "C", "l", "o", "s", "e">>
rollCommand == <<"/">> \o trigger
sumKeyword == <<"s", "u", "m">>
defaultQuery == <<"1", "0", "0">>
HelpQueries ==
    { <<"h", "e", "l", "p">>, <<"-", "-", "h", "e", "l", "p">>, <<"h">>, <<"-", "h">> }

\* ---- strings package ----
IsSpace(c) == c \in {" ", "\n", "\t"}

RECURSIVE TrimLeft(_)
TrimLeft(s) ==
    IF Len(s) > 0 /\ IsSpace(s[1]) THEN TrimLeft(Tail(s)) ELSE s

RECURSIVE TrimRight(_)
TrimRight(s) ==
    IF Len(s) > 0 /\ IsSpace(s[Len(s)]) THEN TrimRight(SubSeq(s, 1, Len(s) - 1)) ELSE s

TrimSpace(s) == TrimRight(TrimLeft(s))

HasPrefix(s, prefix) ==
    /\ Len(s) >= Len(prefix)
    /\ SubSeq(s, 1, Len(prefix)) = prefix

\* strings.Replace(s, old, "", 1): the first occurrence of old is removed
RECURSIVE ReplaceFirst(_, _)
ReplaceFirst(s, old) ==
    IF Len(s) < Len(old) THEN s
    ELSE IF HasPrefix(s, old) THEN SubSeq(s, Len(old) + 1, Len(s))
    ELSE <<s[1]>> \o ReplaceFirst(Tail(s), old)

\* strings.Fields: the maximal runs of non-space characters, in order
RECURSIVE FieldsFrom(_, _)
FieldsFrom(s, cur) ==
    IF Len(s) = 0 THEN (IF Len(cur) = 0 THEN <<>> ELSE <<cur>>)
    ELSE IF IsSpace(s[1])
         THEN (IF Len(cur) = 0 THEN <<>> ELSE <<cur>>) \o FieldsFrom(Tail(s), <<>>)
         ELSE FieldsFrom(Tail(s), Append(cur, s[1]))

Fields(s) == FieldsFrom(s, <<>>)

RECURSIVE Join(_, _)
Join(arr, sep) ==
    IF Len(arr) = 0 THEN <<>>
    ELSE IF Len(arr) = 1 THEN arr[1]
    ELSE arr[1] \o sep \o Join(Tail(arr), sep)

\* ---- fmt verbs ----
DigitChars == <<"0", "1", "2", "3", "4", "5", "6", "7", "8", "9">>

RECURSIVE FormatUint(_)
FormatUint(n) ==
    IF n < 10 THEN <<DigitChars[n + 1]>>
    ELSE FormatUint(n \div 10) \o <<DigitChars[(n % 10) + 1]>>

\* %d
FormatInt(n) == IF n < 0 THEN <<"-">> \o FormatUint(0 - n) ELSE FormatUint(n)

\* %+d
FormatSigned(n) == IF n < 0 THEN FormatInt(n) ELSE <<"+">> \o FormatUint(n)

\* ---- math/rand ----
Seeds == 0..MaxSeed

\* the generator as the runtime leaves it until it is seeded
Unseeded == [seed |-> 1, pos |-> 0]

\* the value of the draw at position pos of the stream of a seed
Int63(seed, pos) == (seed * 5) + (pos * 3) + ((pos * pos) \div 2)

Intn(gen, n) == Int63(gen.seed, gen.pos) % n

Advance(gen, k) == [gen EXCEPT !.pos = @ + k]

\* ---- dice.go: rollDice ----
IsDigit(c) == c \in {"0", "1", "2", "3", "4", "5", "6", "7", "8", "9"}

DigitVal(c) == CHOOSE d \in 0..9 : DigitChars[d + 1] = c

IsDigits(s) == Len(s) > 0 /\ \A i \in 1..Len(s) : IsDigit(s[i])

RECURSIVE Atoi(_)
Atoi(s) ==
    IF Len(s) = 0 THEN 0
    ELSE (Atoi(SubSeq(s, 1, Len(s) - 1)) * 10) + DigitVal(s[Len(s)])

\* index of the first character of s that is in set, 0 when there is none
IndexAny(s, set) ==
    IF \E i \in 1..Len(s) : s[i] \in set
    THEN CHOOSE i \in 1..Len(s) : s[i] \in set /\ \A j \in 1..(i - 1) : s[j] \notin set
    ELSE 0

SignedVal(sign, digits) == IF sign = "-" THEN 0 - Atoi(digits) ELSE Atoi(digits)

NoParse == [ok |-> FALSE, rollType |-> "none", count |-> 0, sides |-> 0, mod |-> 0]

Modifier(mod) ==
    [ok |-> TRUE, rollType |-> "modifier", count |-> 0, sides |-> 0, mod |-> mod]

\* zero dice and dice of zero sides are rejected
Numeric(count, sides, mod) ==
    IF count >= 1 /\ sides >= 1
    THEN [ok |-> TRUE, rollType |-> "numeric", count |-> count, sides |-> sides,
          mod |-> mod]
    ELSE NoParse

\* <sides> or <sides><sign><mod> behind the letter, sg the index of the sign
ParseSides(count, rest, sg) ==
    IF sg = 0
    THEN (IF IsDigits(rest) THEN Numeric(count, Atoi(rest), 0) ELSE NoParse)
    ELSE IF IsDigits(SubSeq(rest, 1, sg - 1)) /\ IsDigits(SubSeq(rest, sg + 1, Len(rest)))
    THEN Numeric(count, Atoi(SubSeq(rest, 1, sg - 1)),
                 SignedVal(rest[sg], SubSeq(rest, sg + 1, Len(rest))))
    ELSE NoParse

\* [count]d<sides>[<sign><mod>], d the index of the letter
ParseDice(countStr, rest) ==
    IF Len(countStr) = 0 THEN ParseSides(1, rest, IndexAny(rest, {"+", "-"}))
    ELSE IF IsDigits(countStr)
    THEN ParseSides(Atoi(countStr), rest, IndexAny(rest, {"+", "-"}))
    ELSE NoParse

ParseLetter(code, d) ==
    IF d > 0 THEN ParseDice(SubSeq(code, 1, d - 1), SubSeq(code, d + 1, Len(code)))
    ELSE IF IsDigits(code) THEN Numeric(1, Atoi(code), 0)
    ELSE NoParse

\* the grammar, tried in the order: modifier, dice with modifier, dice, plain number
ParseRequest(code) ==
    IF Len(code) >= 2 /\ code[1] \in {"+", "-"} /\ IsDigits(Tail(code))
    THEN Modifier(SignedVal(code[1], Tail(code)))
    ELSE ParseLetter(code, IndexAny(code, {"d", "D"}))

\* count dice of the given sides, the attached modifier added to each die
rollDie(count, sides, mod, gen) ==
    [k \in 1..count |-> Intn(Advance(gen, k - 1), sides) + 1 + mod]

rollParsed(p, gen) ==
    IF ~p.ok
    THEN [err |-> TRUE, rollType |-> "none", results |-> <<>>, sumModifier |-> 0,
          rng |-> gen]
    ELSE IF p.rollType = "modifier"
    THEN [err |-> FALSE, rollType |-> "modifier", results |-> <<>>,
          sumModifier |-> p.mod, rng |-> gen]
    ELSE [err |-> FALSE, rollType |-> "numeric",
          results |-> rollDie(p.count, p.sides, p.mod, gen), sumModifier |-> 0,
          rng |-> Advance(gen, p.count)]

rollDice(code, gen) == rollParsed(ParseRequest(code), gen)

\* ---- plugin API ----
Users ==
    { [Nickname |-> <<>>, Username |-> <<"b", "o", "b">>],
      [Nickname |-> <<"A", "l">>, Username |-> <<"a", "l", "1">>] }

\* what p.API.GetUser returns: a user, or an error
GetUserOutcomes ==
    { [err |-> FALSE, user |-> u] : u \in Users }
        \cup { [err |-> TRUE, user |-> [Nickname |-> <<>>, Username |-> <<>>]] }

\* the plugin API as one call sees it: absent, or answering GetUser and
\* CreatePost for the dice post and then for the close post; both GetUser
\* calls ask for args.UserId, so two answers name the same user
ApiOutcomes ==
    { a \in [present : {TRUE}, diceUser : GetUserOutcomes, createDice : BOOLEAN,
             closeUser : GetUserOutcomes, createClose : BOOLEAN] :
        a.diceUser.err \/ a.closeUser.err \/ a.diceUser.user = a.closeUser.user }
        \cup [present : {FALSE}, diceUser : {CHOOSE o \in GetUserOutcomes : o.err},
              createDice : {FALSE},
              closeUser : {CHOOSE o \in GetUserOutcomes : o.err},
              createClose : {FALSE}]

\* ---- errors ----
NoErr == [id |-> "nil", token |-> <<>>]
ApiMissing == [id |-> "ApiMissing", token |-> <<>>]
GetUserFailed == [id |-> "GetUser", token |-> <<>>]
CreatePostFailed == [id |-> "CreatePost", token |-> <<>>]
EmptyRequest == [id |-> "EmptyRequest", token |-> <<>>]
InvalidRequest(rollRequest) == [id |-> "InvalidRequest", token |-> rollRequest]
NoTrigger == [id |-> "NoTrigger", token |-> <<>>]

\* ---- generateDicePost / generateClosePost ----
DisplayName(user) == IF user.Nickname = <<>> THEN user.Username ELSE user.Nickname


\* no default for the empty query
DefaultQuery_None(query) == query

DefaultQuery(query) == IF TrimSpace(query) = <<>> THEN defaultQuery ELSE query

Header(displayName, query) ==
    <<"*", "*">> \o displayName \o <<"*", "*", " ", "r", "o", "l", "l", "s", " ", "*">>
        \o query \o <<"*", " ", "=", " ">>

IsEmptyRequest(rollRequests, query) == Len(rollRequests) = 0 \/ query = sumKeyword

RECURSIVE FormatRolls(_)
FormatRolls(results) ==
    IF Len(results) = 0 THEN <<>>
    ELSE FormatInt(results[1]) \o <<" ">> \o FormatRolls(Tail(results))

NumericBranch(st, i, rollRequest, result) ==
    [st EXCEPT
        !.numericDiceCount = @ + 1,
        !.singleResultCount = @ + Len(result.results),
        !.sum = @ + (LET S[k \in 0..Len(result.results)] ==
                            IF k = 0 THEN 0 ELSE S[k - 1] + result.results[k]
                     IN  S[Len(result.results)]),
        !.formattedRollDetails[i] =
            TrimSpace(rollRequest \o <<":", " ">> \o FormatRolls(result.results))]


\* the modifier is displayed and not added to the total
ModifierBranch_NotAdded(st, i, rollRequest, result) ==
    [st EXCEPT !.formattedRollDetails[i] = FormatSigned(result.sumModifier)]

ModifierBranch(st, i, rollRequest, result) ==
    [st EXCEPT
        !.formattedRollDetails[i] = FormatSigned(result.sumModifier),
        !.sum = @ + result.sumModifier]


\* the result is kept, and displayed and added as its type asks
Record(st, i, rollRequest, result) ==
    IF result.rollType = "numeric"
    THEN NumericBranch([st EXCEPT !.results = Append(@, [rollType |-> result.rollType,
                                                        results |-> result.results,
                                                        sumModifier |-> result.sumModifier])],
                       i, rollRequest, result)
    ELSE ModifierBranch([st EXCEPT !.results = Append(@, [rollType |-> result.rollType,
                                                         results |-> result.results,
                                                         sumModifier |-> result.sumModifier])],
                        i, rollRequest, result)

\* the loop body once rollDice has returned
AfterRoll(st, i, rollRequest, result) ==
    IF result.err
    THEN [st EXCEPT !.rng = result.rng, !.err = InvalidRequest(rollRequest)]
    ELSE Record([st EXCEPT !.rng = result.rng], i, rollRequest, result)

\* a request that rollDice rejects is passed over like the sum keyword
LoopBody_SkipRejected(st, i, rollRequest) ==
    IF rollRequest = sumKeyword \/ ~ParseRequest(rollRequest).ok THEN st
    ELSE AfterRoll(st, i, rollRequest, rollDice(rollRequest, st.rng))

LoopBody(st, i, rollRequest) ==
    IF rollRequest = sumKeyword THEN st
    ELSE AfterRoll(st, i, rollRequest, rollDice(rollRequest, st.rng))

RECURSIVE RangeLoop(_, _, _)
RangeLoop(st, rollRequests, i) ==
    IF i > Len(rollRequests) \/ st.err # NoErr THEN st
    ELSE RangeLoop(LoopBody(st, i, rollRequests[i]), rollRequests, i + 1)


\* nothing is filtered
filterEmptyString_Keep(arr) == arr

RECURSIVE filterEmptyString(_)
filterEmptyString(arr) ==
    IF Len(arr) = 0 THEN <<>>
    ELSE IF arr[1] # <<>> THEN <<arr[1]>> \o filterEmptyString(Tail(arr))
    ELSE filterEmptyString(Tail(arr))


\* off by one: a single roll is itemized too
ShowDetails_AtLeastOne(st) == st.singleResultCount >= 1

\* the numeric requests are counted instead of the rolls
ShowDetails_PerRequest(st) == st.numericDiceCount > 1

ShowDetails(st) == st.singleResultCount > 1

Details(st) ==
    IF ShowDetails(st)
    THEN <<"\n", "-", " ">> \o Join(filterEmptyString(st.formattedRollDetails), <<"\n", "-", " ">>)
    ELSE <<>>

NotCalled ==
    [called |-> FALSE, err |-> NoErr, post |-> <<>>, displayName |-> <<>>,
     query |-> <<>>, rollRequests |-> <<>>, results |-> <<>>, sum |-> 0,
     singleResultCount |-> 0]

Text(displayName, query, st) ==
    Header(displayName, query) \o <<"*", "*">> \o FormatInt(st.sum) \o <<"*", "*">>
        \o Details(st)

\* the return behind the loop
Evaluation(displayName, query, rollRequests, st) ==
    [rng |-> st.rng,
     out |-> [called |-> TRUE, err |-> st.err,
              post |-> IF st.err = NoErr
                       THEN <<[Message |-> Text(displayName, query, st)]>>
                       ELSE <<>>,
              displayName |-> displayName, query |-> query,
              rollRequests |-> rollRequests, results |-> st.results,
              sum |-> st.sum, singleResultCount |-> st.singleResultCount]]

Locals(gen, rollRequests) ==
    [err |-> NoErr, sum |-> 0, singleResultCount |-> 0, numericDiceCount |-> 0,
     formattedRollDetails |-> [i \in 1..Len(rollRequests) |-> <<>>],
     rng |-> gen, results |-> <<>>]

Requested(displayName, query, rollRequests, gen) ==
    IF IsEmptyRequest(rollRequests, query)
    THEN [rng |-> gen,
          out |-> [NotCalled EXCEPT !.called = TRUE, !.err = EmptyRequest,
                                    !.displayName = displayName, !.query = query,
                                    !.rollRequests = rollRequests]]
    ELSE Evaluation(displayName, query, rollRequests,
                    RangeLoop(Locals(gen, rollRequests), rollRequests, 1))

Named(displayName, query, gen) == Requested(displayName, query, Fields(query), gen)

\* the returned post (a sequence of no or one post), the error, the generator
\* it leaves behind, and its locals at the return
generateDicePost(queryArg, userOutcome, gen) ==
    IF userOutcome.err
    THEN [rng |-> gen, out |-> [NotCalled EXCEPT !.called = TRUE, !.err = GetUserFailed]]
    ELSE Named(DisplayName(userOutcome.user), DefaultQuery(queryArg), gen)

CloseText(displayName) ==
    <<"*", "*", "R", "i", "e", "n", " ", "n", "e", " ", "v", "a", " ", "p", "l", "u", "s",
      "!", "!", "!", "!", "*", "*", "\n", "_">>
        \o displayName
        \o <<" ", "c", "l", "o", "s", "e", "s", " ", "t", "h", "e", " ", "r", "o", "u", "n",
             "d", ".", "_">>

generateClosePost(userOutcome) ==
    IF userOutcome.err
    THEN [err |-> GetUserFailed, post |-> <<>>]
    ELSE [err |-> NoErr,
          post |-> <<[Message |-> CloseText(DisplayName(userOutcome.user))]>>]

\* ---- ExecuteCommand ----
NoResponse == [kind |-> "none", err |-> NoErr]
HelpMessage == [kind |-> "help", err |-> NoErr]
EmptyResponse == [kind |-> "response", err |-> NoErr]
Failure(e) == [kind |-> "error", err |-> e]

IsHelpQuery(query) == query \in HelpQueries

CloseRequested(Command) == HasPrefix(Command, rollCommand \o closeModifier)

RollQuery(Command) ==
    IF CloseRequested(Command)
    THEN TrimSpace(ReplaceFirst(Command, rollCommand \o closeModifier))
    ELSE TrimSpace(ReplaceFirst(Command, rollCommand))


\* a failed roll does not end the call, the round is closed all the same
RollOutcome_CloseAnyway(env, Command, g, created) ==
    IF g.out.err # NoErr \/ ~created
    THEN [env EXCEPT !.rng = g.rng, !.dice = g.out,
                     !.closeRound = CloseRequested(Command)]
    ELSE [env EXCEPT !.rng = g.rng, !.dice = g.out,
                     !.posts = @ \o g.out.post, !.validTrigger = TRUE,
                     !.closeRound = CloseRequested(Command)]

\* the call after generateDicePost has returned g
RollOutcome(env, Command, g, created) ==
    IF g.out.err # NoErr
    THEN [env EXCEPT !.rng = g.rng, !.dice = g.out,
                     !.returned = TRUE, !.response = Failure(g.out.err)]
    ELSE IF ~created
    THEN [env EXCEPT !.rng = g.rng, !.dice = g.out,
                     !.returned = TRUE, !.response = Failure(CreatePostFailed)]
    ELSE [env EXCEPT !.rng = g.rng, !.dice = g.out,
                     !.posts = @ \o g.out.post, !.validTrigger = TRUE,
                     !.closeRound = CloseRequested(Command)]

RollQueried(env, query, Command, api) ==
    IF IsHelpQuery(query)
    THEN [env EXCEPT !.returned = TRUE, !.response = HelpMessage]
    ELSE RollOutcome(env, Command, generateDicePost(query, api.diceUser, env.rng),
                     api.createDice)

RollPhase(env, Command, api) ==
    IF ~HasPrefix(Command, rollCommand) THEN env
    ELSE RollQueried(env, RollQuery(Command), Command, api)

ClosePost(env, c, created) ==
    IF c.err # NoErr
    THEN [env EXCEPT !.returned = TRUE, !.response = Failure(c.err)]
    ELSE IF ~created
    THEN [env EXCEPT !.returned = TRUE, !.response = Failure(CreatePostFailed)]
    ELSE [env EXCEPT !.posts = @ \o c.post]

CloseTriggered(env, api) ==
    IF ~env.closeRound THEN env
    ELSE ClosePost(env, generateClosePost(api.closeUser), api.createClose)

ClosePhase(env, Command, api) ==
    IF env.returned THEN env
    ELSE IF HasPrefix(Command, <<"/">> \o closeCommand)
    THEN CloseTriggered([env EXCEPT !.closeRound = TRUE, !.validTrigger = TRUE], api)
    ELSE CloseTriggered(env, api)

\* the trigger is not looked at
Finish_AnyTrigger(env) ==
    IF env.returned THEN env
    ELSE [env EXCEPT !.returned = TRUE, !.response = EmptyResponse]

Finish(env) ==
    IF env.returned THEN env
    ELSE IF env.validTrigger
    THEN [env EXCEPT !.returned = TRUE, !.response = EmptyResponse]
    ELSE [env EXCEPT !.returned = TRUE, !.response = Failure(NoTrigger)]

Entered(gen) ==
    [returned |-> FALSE, response |-> NoResponse, posts |-> <<>>,
     rng |-> gen, dice |-> NotCalled, validTrigger |-> FALSE,
     closeRound |-> FALSE]

Run(Command, api, gen) ==
    IF ~api.present
    THEN [Entered(gen) EXCEPT !.returned = TRUE, !.response = Failure(ApiMissing)]
    ELSE Finish(ClosePhase(RollPhase(Entered(gen), Command, api), Command, api))

\* ---- inputs ----
Words ==
    { <<"2">>, <<"2", "D", "2">>, <<"d", "2", "-", "2">>, <<"+", "3">>, sumKeyword, <<"x">> }

TokenLists == UNION { [1..n -> Words] : n \in 0..MaxTokens }

\* the tokens typed with single spaces, or with wider gaps and a trailing space
Queries ==
    { Join(ws, <<" ">>) : ws \in TokenLists }
        \cup { Join(ws, <<" ", " ">>) \o <<" ">> : ws \in TokenLists }
        \cup HelpQueries
        \cup { defaultQuery }

Commands ==
    { <<"/">> \o t \o <<" ">> \o q : t \in {trigger, trigger \o closeModifier}, q \in Queries }
        \cup { <<"/">> \o t : t \in {trigger, trigger \o closeModifier, closeCommand,
                                     <<"d", "i", "c", "e">>} }
        \cup { <<"/">> \o t \o <<" ">> \o q :
                 t \in {closeCommand, <<"d", "i", "c", "e">>},
                 q \in {<<"2">>, <<"x">>, <<"h", "e", "l", "p">>} }

\* ---- the state machine ----
Init ==
    /\ pc = "constructed"
    /\ rng = Unseeded
    /\ args = [Command |-> <<>>]
    /\ response = NoResponse
    /\ posts = <<>>
    /\ dice = NotCalled

OnActivate ==
    /\ pc = "constructed"
    /\ \E seed \in Seeds, registered \in BOOLEAN :
          /\ rng' = [seed |-> seed, pos |-> 0]
          /\ pc' = IF registered THEN "active" ELSE "failed"
    /\ UNCHANGED <<args, response, posts, dice>>

Returns(Command, env) ==
    /\ args' = [Command |-> Command]
    /\ response' = env.response
    /\ posts' = posts \o env.posts
    /\ rng' = env.rng
    /\ dice' = env.dice
    /\ pc' = "done"

ExecuteCommand ==
    /\ pc = "active"
    /\ \E Command \in Commands, api \in ApiOutcomes : Returns(Command, Run(Command, api, rng))

Next == OnActivate \/ ExecuteCommand

Spec == Init /\ [][Next]_vars

\* ---- what a finished call shows ----
Done == pc = "done"

\* generateDicePost ran and returned a post
Evaluated == Done /\ dice.called /\ dice.err = NoErr

DiceMessage == dice.post[1].Message

\* the message behind "**<name>** rolls *<query>* = **"
AfterHeader ==
    SubSeq(DiceMessage, Len(dice.displayName) + Len(dice.query) + 19, Len(DiceMessage))

\* the characters of the total, up to the closing "**"
TotalText == SubSeq(AfterHeader, 1, IndexAny(AfterHeader, {"*"}) - 1)

AfterTotal == SubSeq(AfterHeader, Len(TotalText) + 3, Len(AfterHeader))

BreakdownShown == HasPrefix(AfterTotal, <<"\n", "-", " ">>)

RECURSIVE SumSeq(_)
SumSeq(xs) == IF Len(xs) = 0 THEN 0 ELSE xs[1] + SumSeq(Tail(xs))

RECURSIVE ResultTotal(_)
ResultTotal(rs) ==
    IF Len(rs) = 0 THEN 0
    ELSE (IF rs[1].rollType = "numeric" THEN SumSeq(rs[1].results) ELSE rs[1].sumModifier)
            + ResultTotal(Tail(rs))

RECURSIVE DiceRolled(_)
DiceRolled(rs) ==
    IF Len(rs) = 0 THEN 0
    ELSE (IF rs[1].rollType = "numeric" THEN Len(rs[1].results) ELSE 0)
            + DiceRolled(Tail(rs))

IsSum(t) == t = <<"s", "u", "m">>

NotSum(t) == ~IsSum(t)

\* the requests of the query that are not the sum keyword, in query order
Requests == SelectSeq(dice.rollRequests, NotSum)

CommandIsRoll == HasPrefix(args.Command, <<"/", "r", "o", "l", "l">>)

CommandIsRollAndClose ==
    HasPrefix(args.Command, <<"/", "r", "o", "l", "l", "A", "n", "d", "C", "l", "o", "s", "e">>)

CommandIsClose == HasPrefix(args.Command, <<"/", "c", "l", "o", "s", "e">>)

\* the text after the trigger, trimmed
TypedQuery ==
    TrimSpace(SubSeq(args.Command, IF CommandIsRollAndClose THEN 14 ELSE 6, Len(args.Command)))

TypedHelp ==
    TypedQuery \in { <<"h", "e", "l", "p">>, <<"-", "-", "h", "e", "l", "p">>, <<"h">>,
                     <<"-", "h">> }

\* the requests generateDicePost goes through for the typed query
TypedRequests ==
    IF TypedQuery = <<>> THEN << <<"1", "0", "0">> >> ELSE Fields(TypedQuery)

IsClosePost(p) ==
    HasPrefix(p.Message,
              <<"*", "*", "R", "i", "e", "n", " ", "n", "e", " ", "v", "a", " ", "p", "l",
                "u", "s", "!", "!", "!", "!", "*", "*", "\n", "_">>)

\* ---- C1 ----
\* C1: for every query generateDicePost evaluates, the total shown in the
\* message is the sum of every roll of every Numeric result plus the modifier
\* of every Modifier result, over all requests of the query that are not the
\* sum keyword; a skipped sum keyword has no result and adds nothing.
C1_TotalIsSumOfResults ==
    Evaluated =>
        /\ Len(dice.results) = Len(Requests)
        /\ TotalText = FormatInt(ResultTotal(dice.results))
        /\ dice.sum = ResultTotal(dice.results)

C1_Witness ==
    /\ Evaluated
    /\ posts # <<>>
    /\ posts[1] = dice.post[1]
    /\ \E i \in 1..Len(dice.rollRequests) : IsSum(dice.rollRequests[i])
    /\ \E k \in 1..Len(dice.results) :
          dice.results[k].rollType = "numeric" /\ Len(dice.results[k].results) = 2
    /\ \E k \in 1..Len(dice.results) :
          dice.results[k].rollType = "modifier" /\ dice.results[k].sumModifier = 3

\* ---- C2 ----
\* C2: when some request of the query is rejected by rollDice, at whatever
\* position, the call fails: generateDicePost returns an error and no post,
\* ExecuteCommand returns that error, and no post at all is created.
C2_RejectedRequestFailsCall ==
    (/\ Done
     /\ CommandIsRoll
     /\ ~TypedHelp
     /\ \E i \in 1..Len(TypedRequests) :
           NotSum(TypedRequests[i]) /\ ~ParseRequest(TypedRequests[i]).ok)
        => /\ response.kind = "error"
           /\ posts = <<>>
           /\ dice.called => /\ dice.err # NoErr
                             /\ dice.post = <<>>
                             /\ response.err = dice.err

C2_Witness ==
    /\ Done
    /\ CommandIsRollAndClose
    /\ Len(TypedRequests) = 3
    /\ ParseRequest(TypedRequests[1]).ok
    /\ ParseRequest(TypedRequests[2]).ok
    /\ dice.called
    /\ dice.err = InvalidRequest(TypedRequests[3])
    /\ response = Failure(dice.err)
    /\ posts = <<>>

\* ---- C3 ----
\* C3: every query without a request left once whitespace and the sum keyword
\* are stripped ("sum", "sum sum") fails with EmptyRequest.
C3_NoRequestIsEmptyRequest ==
    (/\ Done
     /\ dice.called
     /\ dice.err # GetUserFailed
     /\ \A i \in 1..Len(TypedRequests) : IsSum(TypedRequests[i]))
        => /\ dice.err = EmptyRequest
           /\ response = Failure(EmptyRequest)
           /\ posts = <<>>

\* ---- C4 ----
BlankQueries == { <<>>, <<" ">>, <<" ", " ">>, <<"\t", " ">> }

\* C4: an empty or whitespace-only query is evaluated as the query "100": from
\* the same generator state and for the same user, generateDicePost returns the
\* same requests, total, message, error and generator for both, never
\* EmptyRequest; a call whose typed query is blank ends as the call of "100".
C4_EmptyQueryIs100 ==
    [][(pc = "active" /\ pc' = "done" /\ dice'.called /\ TypedQuery' = <<>>) =>
          /\ \A u \in GetUserOutcomes : \A q \in BlankQueries :
                /\ generateDicePost(q, u, rng) = generateDicePost(<<"1", "0", "0">>, u, rng)
                /\ generateDicePost(q, u, rng).out.err # EmptyRequest
          /\ \E u \in GetUserOutcomes :
                /\ dice' = generateDicePost(<<"1", "0", "0">>, u, rng).out
                /\ rng' = generateDicePost(<<"1", "0", "0">>, u, rng).rng
          /\ dice'.err # EmptyRequest]_vars

C4_Witness ==
    /\ Evaluated
    /\ TypedQuery = <<>>
    /\ Len(args.Command) > 5
    /\ dice.query = <<"1", "0", "0">>
    /\ dice.rollRequests = << <<"1", "0", "0">> >>
    /\ Len(dice.results) = 1
    /\ posts # <<>>
    /\ posts[1] = dice.post[1]

\* ---- C5 ----
\* C5: for every evaluated query, the breakdown follows the total if and only
\* if more than one die was rolled over the whole query (the rolls of all
\* Numeric results together); otherwise nothing follows the total.
C5_BreakdownIffSeveralDice ==
    Evaluated =>
        IF DiceRolled(dice.results) > 1 THEN BreakdownShown ELSE AfterTotal = <<>>

C5_Witness ==
    /\ Evaluated
    /\ Len(dice.results) = 1
    /\ dice.results[1].rollType = "numeric"
    /\ Len(dice.results[1].results) = 1
    /\ AfterTotal = <<>>

\* ---- C6 ----
\* C6 as stated: every evaluated query with more than one evaluated request
\* shows the breakdown, "6 +3" included.
C6_SeveralRequestsShowBreakdown ==
    (Evaluated /\ Len(dice.results) > 1) => BreakdownShown

\* C6 amended: an evaluated query with more than one evaluated request shows
\* the breakdown when its requests roll more than one die together; when they
\* roll one die or none (one single-die request and standalone modifiers),
\* only the total is shown.
C6_SeveralRequestsSeveralDice ==
    (Evaluated /\ Len(dice.results) > 1) =>
        /\ DiceRolled(dice.results) > 1 => BreakdownShown
        /\ DiceRolled(dice.results) <= 1 => ~BreakdownShown /\ AfterTotal = <<>>

C6_Witness ==
    /\ Evaluated
    /\ Len(dice.results) = 2
    /\ dice.results[1].rollType = "numeric"
    /\ Len(dice.results[1].results) = 1
    /\ dice.results[2].rollType = "modifier"
    /\ ~BreakdownShown

\* ---- C7 ----
\* C7: when a query fails on a malformed request, no draw has been taken from
\* the random source: the generator after the call is the generator before it.
C7_NoDrawBeforeRejection ==
    [][(pc = "active" /\ pc' = "done" /\ response'.err.id = "InvalidRequest")
          => rng' = rng]_vars

\* ---- C8 ----
RECURSIVE SplitLines(_, _)
SplitLines(s, cur) ==
    IF Len(s) = 0 THEN <<cur>>
    ELSE IF s[1] = "\n" THEN <<cur>> \o SplitLines(Tail(s), <<>>)
    ELSE SplitLines(Tail(s), Append(cur, s[1]))

\* the lines under the total
BreakdownLines == Tail(SplitLines(AfterTotal, <<>>))

RECURSIVE SpacedRolls(_)
SpacedRolls(xs) ==
    IF Len(xs) = 0 THEN <<>> ELSE <<" ">> \o FormatInt(xs[1]) \o SpacedRolls(Tail(xs))

ExpectedLine(rollRequest, r) ==
    <<"-", " ">> \o
        (IF r.rollType = "numeric"
         THEN rollRequest \o <<":">> \o SpacedRolls(r.results)
         ELSE (IF r.sumModifier >= 0 THEN <<"+">> ELSE <<>>) \o FormatInt(r.sumModifier))

\* C8: a breakdown that is shown has one line per request of the query that is
\* not the sum keyword, in the order of the requests in the query; a skipped
\* sum keyword adds no line, not an empty one either, wherever it stands.
C8_OneLinePerRequestInOrder ==
    (Evaluated /\ BreakdownShown) =>
        /\ Len(BreakdownLines) = Len(Requests)
        /\ \A k \in 1..Len(BreakdownLines) :
              BreakdownLines[k] = ExpectedLine(Requests[k], dice.results[k])

C8_Witness ==
    /\ Evaluated
    /\ BreakdownShown
    /\ Len(dice.rollRequests) = 3
    /\ IsSum(dice.rollRequests[2])
    /\ Len(BreakdownLines) = 2
    /\ dice.results[1].rollType # dice.results[2].rollType

\* ---- C9 ----
\* C9: under "/rollAndClose" the dice post is created before the close post,
\* and a close post is created only after the dice post was generated and
\* created: a close post is the second post of the call, behind the dice post.
C9_ClosePostFollowsDicePost ==
    (Done /\ CommandIsRoll) =>
        \A k \in 1..Len(posts) :
            IsClosePost(posts[k]) =>
                /\ CommandIsRollAndClose
                /\ k = 2
                /\ dice.called
                /\ dice.err = NoErr
                /\ dice.post # <<>>
                /\ posts[1] = dice.post[1]
                /\ ~IsClosePost(posts[1])

C9_Witness ==
    /\ Done
    /\ CommandIsRollAndClose
    /\ Len(posts) = 2
    /\ posts[1] = dice.post[1]
    /\ IsClosePost(posts[2])
    /\ response = EmptyResponse

\* ---- C10 ----
\* C10: a call creates at most two posts, as its trigger says: a successful
\* "/roll" one dice post, a successful "/close" one close post, a successful
\* "/rollAndClose" the dice post and then the close post; a help query creates
\* no post, also under "/rollAndClose"; a command with no trigger returns an
\* error and creates no post.
C10_PostsFollowTrigger ==
    Done =>
        /\ Len(posts) <= 2
        /\ (response = EmptyResponse /\ CommandIsRoll /\ ~CommandIsRollAndClose) =>
              /\ Len(posts) = 1
              /\ dice.post = <<posts[1]>>
              /\ ~IsClosePost(posts[1])
        /\ (response = EmptyResponse /\ CommandIsClose) =>
              /\ Len(posts) = 1
              /\ IsClosePost(posts[1])
              /\ ~dice.called
        /\ (response = EmptyResponse /\ CommandIsRollAndClose) =>
              /\ Len(posts) = 2
              /\ dice.post = <<posts[1]>>
              /\ ~IsClosePost(posts[1])
              /\ IsClosePost(posts[2])
        /\ (CommandIsRoll /\ TypedHelp) =>
              /\ posts = <<>>
              /\ response.kind \in {"help", "error"}
              /\ response.kind = "error" => response.err = ApiMissing
        /\ (~CommandIsRoll /\ ~CommandIsClose) =>
              /\ response.kind = "error"
              /\ posts = <<>>
        /\ response.kind \in {"response", "help", "error"}
        /\ response.kind = "response" => (CommandIsRoll \/ CommandIsClose)

C10_Witness ==
    /\ Done
    /\ CommandIsRollAndClose
    /\ TypedHelp
    /\ response = HelpMessage
    /\ posts = <<>>

====
